---- MODULE Spec2Model ----
(***************************************************************************)
(* Model of AIAnalysisService.analyzeVideoFrames and compressFrames         *)
(* (src/src/services/aiAnalysisService.ts): the adaptive frame payload      *)
(* compressor that caps, measures, re-encodes and truncates a batch of      *)
(* camera frames before one outbound call to the vitals service.            *)
(*                                                                          *)
(* A frame buffer is [idx, len, enc]: idx is its position in the caller's   *)
(* array, len its byte length, enc how many times it has been re-encoded.   *)
(* Sizes are exact byte counts; the MB comparisons of the code              *)
(* (payloadSize / (1024*1024) > k) are done on bytes (payloadSize > k*MB).  *)
(***************************************************************************)
EXTENDS Integers, Sequences, FiniteSets, TLC

\* ------------------------------------------------------------------ bounds
MaxInputFrames == 13

\* longest batch given to one Promise.all of re-encodes
MaxBatch == 3

\* most S3 keys (or uploaded frames) in one request
MaxKeys == 3

\* ------------------------------------------------------- program constants
MAX_FRAMES == 12
MAX_PAYLOAD_MB == 20
COMPRESSION_THRESHOLD_MB == 10
TARGET_PAYLOAD_MB == 10
maxCompressionAttempts == 4
BytesPerMB == 1024 * 1024

\* ------------------------------------------------------------ input domains
\* byte lengths of caller frames: 50 KB, 1.5 MB, 3 MB
FrameSizes == {51200, 1572864, 3145728, 3670016}

\* a caller batch has one byte length up to a split position and another after
Splits == {6, 12}

\* percentage of its byte length a frame keeps in one re-encode (sharp's output)
Ratios == {10, 50, 95, 100}

Frame(i, n) == [idx |-> i, len |-> n, enc |-> 0]

Batch(n, a, b, s) == [i \in 1..n |-> Frame(i, IF i <= s THEN a ELSE b)]

InputBatches ==
  {Batch(n, a, b, s) : n \in 0..MaxInputFrames, a \in FrameSizes, b \in FrameSizes, s \in Splits}

\* sensorData / userProfile as the caller passes them: absent, a falsy value
\* that JSON.stringify still writes (null), or an object of a given JSON length
Undefined == [kind |-> "undefined", jsonLen |-> 0]

Null == [kind |-> "null", jsonLen |-> 4]

Obj(n) == [kind |-> "object", jsonLen |-> n]

SensorValues == {Undefined, Null, Obj(27)}

ProfileValues == {Undefined, Obj(35)}

Truthy(v) == v.kind = "object"

VARIABLES
  inputGiven,          \* FALSE when the caller passes no frames array at all
  input,               \* the caller's frames array, as passed to the call
  sensorData,
  userProfile,
  pc,                  \* "entry", "loop", "post", "awaiting", "returned", "failed"
  frames,              \* the local `frames`
  compressedFrames,
  base64Frames,
  payloadSize,
  initialPayloadSize,
  startLevel,
  compressionAttempts,
  profile,             \* targetWidth/targetHeight/quality of the last attempt
  payload,             \* the body handed to axios.post
  posted,              \* number of outbound calls issued
  err,                 \* the error the run threw
  encodedIdx,          \* idx of every frame ever passed to a re-encode
  measureCalls,        \* number of payload size measurements
  failedFrames,        \* positions whose fallback ladder was exhausted in the failing attempt
  finalLog,            \* console lines written after the loop (or the no-compression line)
  reenc,               \* one frame inside compressFrames' map callback (the fallback ladder)
  pall,                \* one compressFrames call: Promise.all over the per-frame callbacks
  img,                 \* one analyzeImageFrame call
  attemptLog,          \* what the last loop iteration computed and warned about
  postLog,             \* what the block after the loop computed
  route                \* one request on an S3-backed analysis route

vars == <<inputGiven, input, sensorData, userProfile, pc, frames, compressedFrames,
          base64Frames, payloadSize, initialPayloadSize, startLevel,
          compressionAttempts, profile, payload, posted, err, encodedIdx,
          measureCalls, failedFrames, finalLog, reenc, pall, img, attemptLog, postLog,
          route>>

\* the variables of analyzeVideoFrames
videoVars == <<inputGiven, input, sensorData, userProfile, pc, frames, compressedFrames,
               base64Frames, payloadSize, initialPayloadSize, startLevel,
               compressionAttempts, profile, payload, posted, err, encodedIdx,
               measureCalls, failedFrames, finalLog, attemptLog, postLog>>

inputVars == <<inputGiven, input, sensorData, userProfile>>

\* --------------------------------------------------------------- helpers
RECURSIVE SumLenTo(_, _)
SumLenTo(s, k) == IF k = 0 THEN 0 ELSE s[k].len + SumLenTo(s, k - 1)

\* the sum of the lengths of a list of buffers or strings
SumLen(s) == SumLenTo(s, Len(s))

\* Buffer.toString('base64'): 4 characters for every started group of 3 bytes
Base64Len(n) == 4 * ((n + 2) \div 3)

Base64(f) == [idx |-> f.idx, len |-> Base64Len(f.len), enc |-> f.enc]

ToBase64(fs) == [i \in 1..Len(fs) |-> Base64(fs[i])]

\* length of JSON.stringify(["..", ".."]) for strings without escapes
FramesJsonLen(b64) ==
  1 + SumLen(b64) + 2 * Len(b64) + (IF Len(b64) > 0 THEN Len(b64) - 1 ELSE 0) + 1

\* ,"key":<value> ; a key whose value is undefined is left out by JSON.stringify
MemberLen(keyLen, v) == IF v.kind = "undefined" THEN 0 ELSE 1 + (keyLen + 2) + 1 + v.jsonLen

\* JSON.stringify({ frames: base64Frames, sensorData }).length
MeasuredLen(b64, sd) == 1 + 9 + FramesJsonLen(b64) + MemberLen(10, sd) + 1

\* slice(-k): keeps the tail instead of the head
TakeLast(fs, k) == SubSeq(fs, (IF k < Len(fs) THEN Len(fs) - k ELSE 0) + 1, Len(fs))

\* slice(0, k - 1): one frame short
TakeFirstOneShort(fs, k) == SubSeq(fs, 1, IF k - 1 < Len(fs) THEN k - 1 ELSE Len(fs))

\* slice(0, k)
TakeFirst(fs, k) == SubSeq(fs, 1, IF k < Len(fs) THEN k ELSE Len(fs))

\* only the missing array is rejected, the length test is forgotten
IsEmptyBatchMissingOnly(given, fs) == ~given

IsEmptyBatch(given, fs) == ~given \/ Len(fs) = 0

\* the cap is not applied
LimitFramesKeepsAll(fs) == fs

\* the cap keeps the newest frames instead of the first ones
LimitFramesNewest(fs) ==
  IF Len(fs) > MAX_FRAMES THEN SubSeq(fs, Len(fs) - MAX_FRAMES + 1, Len(fs)) ELSE fs

LimitFrames(fs) == IF Len(fs) > MAX_FRAMES THEN TakeFirst(fs, MAX_FRAMES) ELSE fs

\* the byte count is compared with the threshold in MB
NeedsCompressionUnscaled(size) == size > COMPRESSION_THRESHOLD_MB

NeedsCompression(size) == size > COMPRESSION_THRESHOLD_MB * BytesPerMB

\* payloads of at most 15 MB start on the mildest rung
StartLevelMildFirst(size) ==
  IF size > 25 * BytesPerMB THEN 3
  ELSE IF size > 18 * BytesPerMB THEN 3
  ELSE IF size > 15 * BytesPerMB THEN 2
  ELSE 1

\* the bands are tested in the wrong order
StartLevelBandsMixed(size) ==
  IF size > 25 * BytesPerMB THEN 2
  ELSE IF size > 18 * BytesPerMB THEN 3
  ELSE 2

StartLevel(size) ==
  IF size > 25 * BytesPerMB THEN 3
  ELSE IF size > 18 * BytesPerMB THEN 3
  ELSE IF size > 15 * BytesPerMB THEN 2
  ELSE 2

\* the loop does not stop when the target is met
LoopContinuesIgnoringSize(size, attempts) == attempts < maxCompressionAttempts

\* the loop gives up after two attempts
LoopContinuesTwoAttempts(size, attempts) ==
  size > TARGET_PAYLOAD_MB * BytesPerMB /\ attempts < 2

\* the attempt bound is off by one
LoopContinuesOneMore(size, attempts) ==
  size > TARGET_PAYLOAD_MB * BytesPerMB /\ attempts <= maxCompressionAttempts

LoopContinues(size, attempts) ==
  size > TARGET_PAYLOAD_MB * BytesPerMB /\ attempts < maxCompressionAttempts

\* the rungs of the if/else chain of the loop body, mildest first
ProfileLadder ==
  << [targetWidth |-> 1280, targetHeight |-> 720, quality |-> 80],
     [targetWidth |-> 960, targetHeight |-> 540, quality |-> 75],
     [targetWidth |-> 640, targetHeight |-> 360, quality |-> 70],
     [targetWidth |-> 480, targetHeight |-> 270, quality |-> 65] >>

NoProfile == [targetWidth |-> 0, targetHeight |-> 0, quality |-> 0]

ProfileOf(level) ==
  IF level = 1 THEN [targetWidth |-> 1280, targetHeight |-> 720, quality |-> 80]
  ELSE IF level = 2 THEN [targetWidth |-> 960, targetHeight |-> 540, quality |-> 75]
  ELSE IF level = 3 THEN [targetWidth |-> 640, targetHeight |-> 360, quality |-> 70]
  ELSE [targetWidth |-> 480, targetHeight |-> 270, quality |-> 65]

\* one frame through sharp: a new buffer, r percent of the old byte length
Reencode(f, r) == [idx |-> f.idx, len |-> (f.len * r) \div 100, enc |-> f.enc + 1]

\* a frame whose ladder is exhausted is caught and left out of the result
CompressFramesSkipping(fs, r, F) ==
  [ok |-> TRUE,
   frames |-> [i \in 1..Len(SelectSeq(fs, LAMBDA f : f.idx \notin {fs[j].idx : j \in F})) |->
                 Reencode(SelectSeq(fs, LAMBDA f : f.idx \notin {fs[j].idx : j \in F})[i], r)]]

\* compressFrames: Promise.all of frames.map. F is the set of positions whose
\* fallback ladder is exhausted (their promise rejects); the call resolves to the
\* re-encoded frames in input order only when no promise rejects
CompressFrames(fs, r, F) ==
  IF F # {}
  THEN [ok |-> FALSE, frames |-> <<>>]
  ELSE [ok |-> TRUE, frames |-> [i \in 1..Len(fs) |-> Reencode(fs[i], r)]]

\* the sets of positions whose fallback ladder may be exhausted in one attempt
FailSets(n) == SUBSET ({1, n} \cap 1..n)

\* compressionRatio < 10, compressionRatio = orig > 0 ? (orig - comp) / orig * 100 : 0
\* (compared on integers: (orig - comp) / orig < 1/10)
LowRatio(orig, comp) == IF orig > 0 THEN (orig - comp) * 10 < orig ELSE TRUE

\* the final check uses the 30 MB band of the escalation step
ExceedsMaxLoose(size) == size > 30 * BytesPerMB

\* the final check rejects everything above the target
ExceedsMaxAtTarget(size) == size > TARGET_PAYLOAD_MB * BytesPerMB

ExceedsMax(size) == size > MAX_PAYLOAD_MB * BytesPerMB

\* payloadSizeMB.toFixed(2), in hundredths of a MB
ToFixed2(size) ==
  (size \div BytesPerMB) * 100 + ((size % BytesPerMB) * 100 + BytesPerMB \div 2) \div BytesPerMB

NoError == [kind |-> "none", frame |-> 0, sizeText |-> 0, max |-> 0]

\* new Error('No frames provided for analysis')
NoFramesError == [NoError EXCEPT !.kind = "NoFrames"]

\* new Error(`Failed to compress frame ${index + 1}...`): k is the 1-based position
FrameEncodeError(k) == [NoError EXCEPT !.kind = "FrameEncode", !.frame = k]

\* the two numbers of the message are swapped
PayloadTooLargeErrorSwapped(size) ==
  [NoError EXCEPT !.kind = "PayloadTooLarge", !.sizeText = MAX_PAYLOAD_MB * 100,
                  !.max = size \div BytesPerMB]

\* new Error(`Payload too large (${payloadSizeMB.toFixed(2)} MB) after compression.
\* Maximum allowed: ${MAX_PAYLOAD_MB} MB.`)
PayloadTooLargeError(size) ==
  [NoError EXCEPT !.kind = "PayloadTooLarge", !.sizeText = ToFixed2(size),
                  !.max = MAX_PAYLOAD_MB]

\* the error the catch block around axios.post rethrows
UpstreamError == [NoError EXCEPT !.kind = "Upstream"]

NoPayload == [frames |-> <<>>, sensorData |-> Undefined, userProfile |-> Undefined]

\* the request body: sensorData and userProfile are added only when truthy
BuildPayload(b64, sd, up) ==
  [frames |-> b64,
   sensorData |-> IF Truthy(sd) THEN sd ELSE Undefined,
   userProfile |-> IF Truthy(up) THEN up ELSE Undefined]

\* length of the JSON body axios sends for a payload
SerializedLen(p) ==
  1 + 9 + FramesJsonLen(p.frames) + MemberLen(10, p.sensorData) + MemberLen(11, p.userProfile) + 1

\* ------------------------------------------- the per-frame fallback ladder
\* pixel sizes of the frames given to the map callback
FrameDims == {<<4000, 3000>>, <<1920, 1080>>, <<640, 480>>, <<300, 400>>, <<160, 120>>}

\* what image.metadata() does on a buffer: returns width and height, returns
\* without them, or throws
MetadataOutcomes == {"dims", "nodims", "throws"}

NoOutput == [rung |-> "none", width |-> 0, height |-> 0, quality |-> 0]

\* no frame is inside the map callback
NoReencode ==
  [pc |-> "idle", width |-> 0, height |-> 0, meta |-> "dims", profile |-> NoProfile,
   newWidth |-> 0, newHeight |-> 0, tried |-> <<>>, failed |-> {}, out |-> NoOutput,
   error |-> "none", log |-> "none"]

\* Math.round(a / b) for positive integers
RoundDiv(a, b) == (2 * a + b) \div (2 * b)

\* sharp's resize(W, H, { fit: 'inside', withoutEnlargement }): the largest size
\* of the same aspect ratio inside W x H, the shrink factor clamped at 1 when
\* enlargement is off
SharpResize(w, h, W, H, withoutEnlargement) ==
  IF W * h <= H * w
  THEN (IF withoutEnlargement /\ W >= w THEN <<w, h>>
        ELSE <<W, (IF RoundDiv(h * W, w) < 1 THEN 1 ELSE RoundDiv(h * W, w))>>)
  ELSE (IF withoutEnlargement /\ H >= h THEN <<w, h>>
        ELSE <<(IF RoundDiv(w * H, h) < 1 THEN 1 ELSE RoundDiv(w * H, h)), H>>)

\* ratio = Math.min(targetMaxWidth / width, targetMaxHeight / height);
\* newWidth = Math.round(width * ratio), newHeight = Math.round(height * ratio)
ScaledDims(w, h, tw, th) ==
  IF tw * h <= th * w THEN <<tw, RoundDiv(h * tw, w)>> ELSE <<RoundDiv(w * th, h), th>>

\* if (newWidth !== metadata.width || newHeight !== metadata.height) the
\* "Resizing from ... to ..." line, else the "Keeping dimensions ..., reducing
\* quality" line (lines 102-107)
DimensionLog(w, h, nw, nh) == IF nw # w \/ nh # h THEN "resizing" ELSE "keepingDimensions"

\* the resize of the direct and lossless-intermediate rungs, enlargement allowed
ProfileResizeEnlarging(w, h, nw, nh) == SharpResize(w, h, nw, nh, FALSE)

\* .resize(newWidth, newHeight, { fit: 'inside', withoutEnlargement: true })
ProfileResize(w, h, nw, nh) == SharpResize(w, h, nw, nh, TRUE)

Min(a, b) == IF a < b THEN a ELSE b

Max(a, b) == IF a > b THEN a ELSE b

\* .resize(forceWidth, forceHeight, { fit: 'inside', withoutEnlargement: true })
\* with forceWidth = Math.min(newWidth, 480), forceHeight = Math.min(newHeight, 360)
ForcedResize(w, h, nw, nh) == SharpResize(w, h, Min(nw, 480), Min(nh, 360), TRUE)

\* forceQuality = Math.max(quality - 15, 60)
ForcedQuality(q) == Max(q - 15, 60)

\* .resize(320, 240, { fit: 'inside', withoutEnlargement: false })
MinimalResize(w, h) == SharpResize(w, h, 320, 240, FALSE)

\* a failed direct re-encode is not caught by the inner try and lands in the
\* outer catch
AfterFailureNoInnerCatch(step, meta) ==
  IF step = "direct" THEN "fallbackMetadata"
  ELSE IF step \in {"metadata", "recompress", "pngIntermediate"} THEN "fallbackMetadata"
  ELSE IF step \in {"fallbackMetadata", "forcedSmall"} THEN "minimal"
  ELSE "error"

\* where control goes when a step of the callback throws: the inner catch
\* (line 122), the outer catch (138), the catch of the fallback (173), the
\* final catch (183)
AfterFailure(step, meta) ==
  IF step = "direct" THEN "pngIntermediate"
  ELSE IF step \in {"metadata", "recompress", "pngIntermediate"} THEN "fallbackMetadata"
  ELSE IF step \in {"fallbackMetadata", "forcedSmall"} THEN "minimal"
  ELSE "error"

\* no compressFrames call is in progress
NoSlot == [state |-> "pending", value |-> Frame(0, 0)]

NoPromiseAll ==
  [pc |-> "idle", frames |-> <<>>, bad |-> {}, ratio |-> 100, slots |-> <<>>,
   order |-> <<>>, result |-> <<>>, error |-> NoError]

\* every rejection replaces the error: the last one to arrive wins
RejectionErrorLast(settled, i, current) == FrameEncodeError(i)

\* a promise settles once: Promise.all rejects with the first rejection to
\* arrive, later ones are ignored
RejectionError(settled, i, current) == IF settled THEN current ELSE FrameEncodeError(i)

\* the values are collected in the order the callbacks finished
AssembleByCompletion(slots, order) == [k \in 1..Len(order) |-> slots[order[k]].value]

\* Promise.all fulfils with the callbacks' values at their input positions
Assemble(slots, order) == [i \in 1..Len(slots) |-> slots[i].value]

\* no analyzeImageFrame call is in progress
NoImageCall ==
  [pc |-> "idle", given |-> FALSE, buffer |-> Frame(0, 0), sensorData |-> Undefined,
   payload |-> [image |-> Frame(0, 0), sensorData |-> Undefined], posted |-> FALSE,
   error |-> NoError]

\* byte lengths of the buffers given to analyzeImageFrame: empty, around the
\* base64 padding cases, and up to beyond the video path's 20 MB limit
ImageSizes ==
  {0, 1, 2, 3, 4, 1024, 51200, 1572864, 3145728, 8388608, 15728640, 26214400}

\* new Error('Image buffer is required')
ImageBufferRequiredError == [NoError EXCEPT !.kind = "ImageBufferRequired"]

\* the image goes through the re-encoder before it is encoded to base64
ImagePayloadReencoded(buffer, sd) ==
  [image |-> Base64(Reencode(buffer, 95)), sensorData |-> IF Truthy(sd) THEN sd ELSE Undefined]

\* payload = { image: imageBuffer.toString('base64') };
\* if (sensorData) payload.sensorData = sensorData
ImagePayload(buffer, sd) ==
  [image |-> Base64(buffer), sensorData |-> IF Truthy(sd) THEN sd ELSE Undefined]

\* no loop iteration has run
NoAttempt ==
  [attempt |-> 0, lenBefore |-> 0, totalOriginalSize |-> 0, totalCompressedSize |-> 0,
   lowDrop |-> FALSE, measuredLen |-> 0, largeDrop |-> FALSE, fullSize |-> 0,
   largeDropSeen |-> FALSE]

\* the low-ratio cut is made at any attempt, the first included
DropForLowRatioAnyAttempt(orig, comp, attempt, n) == LowRatio(orig, comp) /\ n > 6

\* if (compressionRatio < 10 && compressionAttempts >= 2) if (length > 6)
DropForLowRatio(orig, comp, attempt, n) == LowRatio(orig, comp) /\ attempt >= 2 /\ n > 6

\* if (payloadSizeMB > 18 && compressedFrames.length > 6 && compressionAttempts >= 2)
DropForLargeSize(size, n, attempt) == size > 18 * BytesPerMB /\ n > 6 /\ attempt >= 2

\* the block after the loop has not run
NoPostLoop ==
  [sizeAfterLoop |-> 0, lenAfterLoop |-> 0, measuredLenAfterLoop |-> 0,
   targetFrameCount |-> 0, cut |-> 0]

\* the two targets are exchanged: the smaller overage gets the smaller count
TargetFrameCountInverted(size) == IF size > 25 * BytesPerMB THEN 8 ELSE 6

\* targetFrameCount of the escalation (lines 329-336)
TargetFrameCount(size) ==
  IF size > 30 * BytesPerMB THEN 6 ELSE IF size > 25 * BytesPerMB THEN 6 ELSE 8

\* if (compressedFrames.length > targetFrameCount) slice(0, targetFrameCount)
EscalationCut(size, n) == IF n > TargetFrameCount(size) THEN TargetFrameCount(size) ELSE 0

\* the test is written with || instead of &&
SafetyCutEither(size, n) == IF size > 15 * BytesPerMB \/ n > 8 THEN 8 ELSE 0

\* else if (payloadSizeMB > 15 && compressedFrames.length > 8) slice(0, 8)
SafetyCut(size, n) == IF size > 15 * BytesPerMB /\ n > 8 THEN 8 ELSE 0

\* no request is on an S3-backed route
NoRequest ==
  [pc |-> "idle", path |-> "none", source |-> "none", count |-> 0, save |-> FALSE,
   analysis |-> "none", deletes |-> 0, deletedKeys |-> 0, status |-> 0]

\* the two routes that accept S3 keys
S3Routes == {"analyze-video", "analyze-video-file"}

\* where a request's media come from: req.body.s3Keys / s3Key, the multipart
\* upload, the base64 frames array (video route only), or nothing
Sources(path) ==
  IF path = "analyze-video" THEN {"s3", "files", "base64", "none"} ELSE {"s3", "file", "none"}

\* the number of S3 delete calls the route starts once the analysis call has
\* settled with the given outcome: POST /analyze-video deletes in a finally
\* block (376-383), POST /analyze-video-file on the line after the awaited
\* call (605-618), which an exception skips
DeletesStarted(path, source, outcome) ==
  IF source # "s3" THEN 0
  ELSE IF path = "analyze-video" THEN 1
  ELSE IF outcome = "ok" THEN 1 ELSE 0

\* ------------------------------------------------------------------- Init
Init ==
  /\ inputGiven = FALSE
  /\ input = <<>>
  /\ sensorData = Undefined
  /\ userProfile = Undefined
  /\ pc = "entry"
  /\ frames = <<>>
  /\ compressedFrames = <<>>
  /\ base64Frames = <<>>
  /\ payloadSize = 0
  /\ initialPayloadSize = 0
  /\ startLevel = 0
  /\ compressionAttempts = 0
  /\ profile = NoProfile
  /\ payload = NoPayload
  /\ posted = 0
  /\ err = NoError
  /\ encodedIdx = {}
  /\ measureCalls = 0
  /\ failedFrames = {}
  /\ finalLog = {}
  /\ reenc = NoReencode
  /\ pall = NoPromiseAll
  /\ img = NoImageCall
  /\ attemptLog = NoAttempt
  /\ postLog = NoPostLoop
  /\ route = NoRequest

\* ---------------------------------------------------------------- actions
\* the call analyzeVideoFrames(frames, sensorData, userProfile) up to the
\* compression loop: empty check, frame-count limiter, initial measurement,
\* threshold test, starting level
Entry ==
  /\ pc = "entry"
  /\ \E given \in BOOLEAN, fs0 \in InputBatches, sd \in SensorValues, up \in ProfileValues :
       /\ (~given => fs0 = <<>>)
       /\ inputGiven' = given
       /\ input' = fs0
       /\ sensorData' = sd
       /\ userProfile' = up
       /\ IF IsEmptyBatch(given, fs0)
          THEN /\ pc' = "failed"
               /\ err' = NoFramesError
               /\ frames' = fs0
               /\ UNCHANGED <<compressedFrames, base64Frames, payloadSize,
                              initialPayloadSize, startLevel, measureCalls, finalLog>>
          ELSE \E fs \in {LimitFrames(fs0)} :
               \E b64 \in {ToBase64(fs)} :
               \E size \in {MeasuredLen(b64, sd)} :
                  /\ frames' = fs
                  /\ base64Frames' = b64
                  /\ payloadSize' = size
                  /\ measureCalls' = measureCalls + 1
                  /\ err' = err
                  /\ IF NeedsCompression(size)
                     THEN /\ compressedFrames' = fs
                          /\ initialPayloadSize' = size
                          /\ startLevel' = StartLevel(size)
                          /\ finalLog' = finalLog
                          /\ pc' = "loop"
                     ELSE /\ UNCHANGED <<compressedFrames, initialPayloadSize, startLevel>>
                          /\ finalLog' = {"noCompressionNeeded"}
                          /\ pc' = "post"
  /\ UNCHANGED <<compressionAttempts, profile, payload, posted, encodedIdx, failedFrames,
                 attemptLog, postLog>>
  /\ UNCHANGED <<reenc, pall, img, route>>

\* one iteration of the while loop, the await of compressFrames included.
\* (Intermediate values are bound with \E over one-element sets so that each is
\* computed once.)
CompressAttempt ==
  /\ pc = "loop"
  /\ LoopContinues(payloadSize, compressionAttempts)
  /\ \E r \in Ratios, F \in FailSets(Len(compressedFrames)) :
     \E attempt \in {compressionAttempts + 1} :
     \E currentLevel \in {IF attempt = 1 THEN startLevel ELSE attempt} :
     \E outcome \in {CompressFrames(compressedFrames, r, F)} :
       /\ compressionAttempts' = attempt
       /\ profile' = ProfileOf(currentLevel)
       /\ encodedIdx' = encodedIdx \cup {compressedFrames[i].idx : i \in 1..Len(compressedFrames)}
       /\ failedFrames' = F
       /\ IF ~outcome.ok
          THEN \* Promise.all rejects with the first rejection to arrive
               \E k \in F :
                 /\ pc' = "failed"
                 /\ err' = FrameEncodeError(k)
                 /\ attemptLog' = [NoAttempt EXCEPT !.attempt = attempt,
                                                     !.lenBefore = Len(compressedFrames),
                                                     !.largeDropSeen = attemptLog.largeDropSeen]
                 /\ UNCHANGED <<compressedFrames, base64Frames, payloadSize, measureCalls>>
          ELSE \E totalCompressedSize \in {SumLen(outcome.frames)},
                  totalOriginalSize \in {SumLen(compressedFrames)} :
               \E lowDrop \in {DropForLowRatio(totalOriginalSize, totalCompressedSize,
                                                attempt, Len(outcome.frames))} :
               \E reduced \in {IF lowDrop THEN TakeFirst(outcome.frames, 6)
                               ELSE outcome.frames} :
               \E b64 \in {ToBase64(reduced)} :
               \E size \in {MeasuredLen(b64, sensorData)} :
                 /\ base64Frames' = b64
                 /\ payloadSize' = size
                 /\ measureCalls' = measureCalls + 1
                 /\ compressedFrames' =
                      IF size <= TARGET_PAYLOAD_MB * BytesPerMB THEN reduced
                      ELSE IF DropForLargeSize(size, Len(reduced), attempt)
                           THEN TakeFirst(reduced, 6) ELSE reduced
                 /\ attemptLog' =
                      [attempt |-> attempt, lenBefore |-> Len(compressedFrames),
                       totalOriginalSize |-> totalOriginalSize,
                       totalCompressedSize |-> totalCompressedSize,
                       lowDrop |-> lowDrop, measuredLen |-> Len(reduced),
                       largeDrop |-> (size > TARGET_PAYLOAD_MB * BytesPerMB
                                      /\ DropForLargeSize(size, Len(reduced), attempt)),
                       \* what the batch measures before the low-ratio cut
                       \* (the code measures only after it)
                       fullSize |-> IF lowDrop
                                    THEN MeasuredLen(ToBase64(outcome.frames), sensorData)
                                    ELSE size,
                       \* the "Payload still very large" warning was written in
                       \* this or an earlier iteration
                       largeDropSeen |-> (attemptLog.largeDropSeen
                                          \/ (size > TARGET_PAYLOAD_MB * BytesPerMB
                                              /\ DropForLargeSize(size, Len(reduced), attempt)))]
                 /\ pc' = "loop"
                 /\ err' = err
  /\ UNCHANGED <<inputVars, frames, initialPayloadSize, startLevel, payload, posted, finalLog,
                 postLog>>
  /\ UNCHANGED <<reenc, pall, img, route>>

\* after the loop: frame-count escalation, safety reduction and the final check
Escalate ==
  /\ pc = "loop"
  /\ ~LoopContinues(payloadSize, compressionAttempts)
  /\ \E cut \in {IF ExceedsMax(payloadSize)
                 THEN EscalationCut(payloadSize, Len(compressedFrames))
                 ELSE SafetyCut(payloadSize, Len(compressedFrames))} :
     \E cf \in {IF cut > 0 THEN TakeFirst(compressedFrames, cut) ELSE compressedFrames} :
     \E b64 \in {IF cut > 0 THEN ToBase64(cf) ELSE base64Frames} :
     \E size \in {IF cut > 0 THEN MeasuredLen(b64, sensorData) ELSE payloadSize} :
        /\ compressedFrames' = cf
        /\ frames' = cf
        /\ base64Frames' = b64
        /\ payloadSize' = size
        /\ measureCalls' = (IF cut > 0 THEN measureCalls + 1 ELSE measureCalls)
        /\ postLog' = [sizeAfterLoop |-> payloadSize, lenAfterLoop |-> Len(compressedFrames),
                       measuredLenAfterLoop |-> Len(base64Frames),
                       targetFrameCount |-> (IF ExceedsMax(payloadSize)
                                             THEN TargetFrameCount(payloadSize) ELSE 0),
                       cut |-> cut]
        /\ finalLog' = (IF cut = 0 THEN {}
                        ELSE IF ExceedsMax(payloadSize) THEN {"warnReducingFrameCount"}
                        ELSE {"warnSafetyReduction"})
                       \cup (IF ExceedsMax(size) THEN {"errorTooLarge"}
                             ELSE IF size > TARGET_PAYLOAD_MB * BytesPerMB
                             THEN {"warnAboveTarget"}
                             ELSE {"compressionSuccessful"})
        /\ IF ExceedsMax(size)
           THEN /\ pc' = "failed"
                /\ err' = PayloadTooLargeError(size)
           ELSE /\ pc' = "post"
                /\ err' = err
  /\ UNCHANGED <<inputVars, initialPayloadSize, startLevel, compressionAttempts,
                 profile, payload, posted, encodedIdx, failedFrames, attemptLog>>
  /\ UNCHANGED <<reenc, pall, img, route>>

\* build the payload and issue axios.post
Post ==
  /\ pc = "post"
  /\ payload' = BuildPayload(base64Frames, sensorData, userProfile)
  /\ posted' = posted + 1
  /\ pc' = "awaiting"
  /\ UNCHANGED <<inputVars, frames, compressedFrames, base64Frames, payloadSize,
                 initialPayloadSize, startLevel, compressionAttempts, profile, err,
                 encodedIdx, measureCalls, failedFrames, finalLog, attemptLog, postLog>>
  /\ UNCHANGED <<reenc, pall, img, route>>

\* the vitals service answers: return response.data.result
RespondOk ==
  /\ pc = "awaiting"
  /\ pc' = "returned"
  /\ UNCHANGED <<inputVars, frames, compressedFrames, base64Frames, payloadSize,
                 initialPayloadSize, startLevel, compressionAttempts, profile, payload,
                 posted, err, encodedIdx, measureCalls, failedFrames, finalLog, attemptLog, postLog>>
  /\ UNCHANGED <<reenc, pall, img, route>>

\* the call fails or times out: the catch block rethrows
RespondError ==
  /\ pc = "awaiting"
  /\ pc' = "failed"
  /\ err' = UpstreamError
  /\ UNCHANGED <<inputVars, frames, compressedFrames, base64Frames, payloadSize,
                 initialPayloadSize, startLevel, compressionAttempts, profile, payload,
                 posted, encodedIdx, measureCalls, failedFrames, finalLog, attemptLog, postLog>>
  /\ UNCHANGED <<reenc, pall, img, route>>

\* ------------------------------------ the map callback of compressFrames
\* the callback is entered for one frame with the profile of the attempt
ReencodeStart ==
  /\ reenc.pc = "idle"
  /\ \E d \in FrameDims, m \in MetadataOutcomes, k \in 1..Len(ProfileLadder) :
       reenc' = [NoReencode EXCEPT !.pc = "metadata", !.width = d[1], !.height = d[2],
                                   !.meta = m, !.profile = ProfileLadder[k]]
  /\ UNCHANGED <<videoVars, pall, img, route>>

\* sharp(frame, ...) and await image.metadata() (lines 74-107)
ReadMetadata ==
  /\ reenc.pc = "metadata"
  /\ reenc' =
       IF reenc.meta = "throws"
       THEN [reenc EXCEPT !.pc = AfterFailure("metadata", reenc.meta)]
       ELSE IF reenc.meta = "nodims"
       THEN [reenc EXCEPT !.pc = "recompress"]
       ELSE [reenc EXCEPT
               !.pc = "direct",
               !.newWidth = ScaledDims(reenc.width, reenc.height, reenc.profile.targetWidth,
                                       reenc.profile.targetHeight)[1],
               !.newHeight = ScaledDims(reenc.width, reenc.height, reenc.profile.targetWidth,
                                        reenc.profile.targetHeight)[2],
               !.log = DimensionLog(reenc.width, reenc.height,
                                    ScaledDims(reenc.width, reenc.height,
                                               reenc.profile.targetWidth,
                                               reenc.profile.targetHeight)[1],
                                    ScaledDims(reenc.width, reenc.height,
                                               reenc.profile.targetWidth,
                                               reenc.profile.targetHeight)[2])]
  /\ UNCHANGED <<videoVars, pall, img, route>>

\* dimensions unknown: image.png().jpeg({ quality }).toBuffer() (lines 81-92)
RecompressOnly ==
  /\ reenc.pc = "recompress"
  /\ \E ok \in BOOLEAN :
       reenc' =
         IF ok
         THEN [reenc EXCEPT !.pc = "done", !.tried = Append(@, "recompress"),
                 !.out = [rung |-> "recompress", width |-> reenc.width,
                          height |-> reenc.height, quality |-> reenc.profile.quality]]
         ELSE [reenc EXCEPT !.pc = AfterFailure("recompress", reenc.meta),
                 !.tried = Append(@, "recompress"), !.failed = @ \cup {"recompress"}]
  /\ UNCHANGED <<videoVars, pall, img, route>>

\* image.resize(newWidth, newHeight, ...).jpeg({ quality }).toBuffer() (110-121)
DirectJpeg ==
  /\ reenc.pc = "direct"
  /\ \E ok \in BOOLEAN :
     \E d \in {ProfileResize(reenc.width, reenc.height, reenc.newWidth, reenc.newHeight)} :
       reenc' =
         IF ok
         THEN [reenc EXCEPT !.pc = "done", !.tried = Append(@, "direct"),
                 !.out = [rung |-> "direct", width |-> d[1], height |-> d[2],
                          quality |-> reenc.profile.quality]]
         ELSE [reenc EXCEPT !.pc = AfterFailure("direct", reenc.meta),
                 !.tried = Append(@, "direct"), !.failed = @ \cup {"direct"}]
  /\ UNCHANGED <<videoVars, pall, img, route>>

\* image.resize(...).png().jpeg({ quality }).toBuffer() (lines 122-137)
PngIntermediate ==
  /\ reenc.pc = "pngIntermediate"
  /\ \E ok \in BOOLEAN :
     \E d \in {ProfileResize(reenc.width, reenc.height, reenc.newWidth, reenc.newHeight)} :
       reenc' =
         IF ok
         THEN [reenc EXCEPT !.pc = "done", !.tried = Append(@, "pngIntermediate"),
                 !.out = [rung |-> "pngIntermediate", width |-> d[1], height |-> d[2],
                          quality |-> reenc.profile.quality]]
         ELSE [reenc EXCEPT !.pc = AfterFailure("pngIntermediate", reenc.meta),
                 !.tried = Append(@, "pngIntermediate"),
                 !.failed = @ \cup {"pngIntermediate"}]
  /\ UNCHANGED <<videoVars, pall, img, route>>

\* the outer catch: sharp(frame) and metadata() again (lines 138-157); without
\* dimensions the try block ends without a return and line 190 throws
FallbackMetadata ==
  /\ reenc.pc = "fallbackMetadata"
  /\ reenc' =
       IF reenc.meta = "throws"
       THEN [reenc EXCEPT !.pc = AfterFailure("fallbackMetadata", reenc.meta)]
       ELSE IF reenc.meta = "nodims"
       THEN [reenc EXCEPT !.pc = "error", !.error = "FailedAfterAllAttempts"]
       ELSE [reenc EXCEPT
               !.pc = "forcedSmall",
               !.newWidth = ScaledDims(reenc.width, reenc.height, reenc.profile.targetWidth,
                                       reenc.profile.targetHeight)[1],
               !.newHeight = ScaledDims(reenc.width, reenc.height, reenc.profile.targetWidth,
                                        reenc.profile.targetHeight)[2]]
  /\ UNCHANGED <<videoVars, pall, img, route>>

\* image.png().resize(forceWidth, forceHeight, ...).jpeg({ forceQuality }) (159-171)
AggressiveResize ==
  /\ reenc.pc = "forcedSmall"
  /\ \E ok \in BOOLEAN :
     \E d \in {ForcedResize(reenc.width, reenc.height, reenc.newWidth, reenc.newHeight)} :
       reenc' =
         IF ok
         THEN [reenc EXCEPT !.pc = "done", !.tried = Append(@, "forcedSmall"),
                 !.out = [rung |-> "forcedSmall", width |-> d[1], height |-> d[2],
                          quality |-> ForcedQuality(reenc.profile.quality)]]
         ELSE [reenc EXCEPT !.pc = AfterFailure("forcedSmall", reenc.meta),
                 !.tried = Append(@, "forcedSmall"), !.failed = @ \cup {"forcedSmall"}]
  /\ UNCHANGED <<videoVars, pall, img, route>>

\* sharp(frame).resize(320, 240, ...).jpeg({ quality: 60 }) (lines 176-187)
MinimalAttempt ==
  /\ reenc.pc = "minimal"
  /\ \E ok \in BOOLEAN :
     \E d \in {MinimalResize(reenc.width, reenc.height)} :
       reenc' =
         IF ok
         THEN [reenc EXCEPT !.pc = "done", !.tried = Append(@, "minimal"),
                 !.out = [rung |-> "minimal", width |-> d[1], height |-> d[2],
                          quality |-> 60]]
         ELSE [reenc EXCEPT !.pc = AfterFailure("minimal", reenc.meta),
                 !.tried = Append(@, "minimal"), !.failed = @ \cup {"minimal"},
                 !.error = "FailedToCompress"]
  /\ UNCHANGED <<videoVars, pall, img, route>>

NextReencode ==
  \/ ReencodeStart
  \/ ReadMetadata
  \/ RecompressOnly
  \/ DirectJpeg
  \/ PngIntermediate
  \/ FallbackMetadata
  \/ AggressiveResize
  \/ MinimalAttempt

SpecReencode == Init /\ [][NextReencode]_vars

\* ------------------------------ Promise.all(frames.map(async ...)) (69-195)
\* frames.map starts one callback per frame; all are pending together
MapStart ==
  /\ pall.pc = "idle"
  /\ \E n \in 1..MaxBatch, a \in FrameSizes, r \in Ratios :
     \E bad \in SUBSET (1..n) :
       pall' = [NoPromiseAll EXCEPT !.pc = "running", !.frames = Batch(n, a, a, n),
                                    !.bad = bad,
                                    !.ratio = r, !.slots = [i \in 1..n |-> NoSlot]]
  /\ UNCHANGED <<videoVars, reenc, img, route>>

\* one pending callback returns its buffer or, for a frame whose fallback
\* ladder is exhausted, throws; the first throw rejects the Promise.all,
\* callbacks still pending then go on and are ignored
CallbackSettles ==
  /\ pall.pc \in {"running", "rejected"}
  /\ \E i \in {j \in 1..Len(pall.slots) : pall.slots[j].state = "pending"} :
       pall' =
         IF i \notin pall.bad
         THEN [pall EXCEPT !.slots[i] = [state |-> "fulfilled",
                                         value |-> Reencode(pall.frames[i], pall.ratio)],
                           !.order = Append(@, i)]
         ELSE [pall EXCEPT !.slots[i] = [NoSlot EXCEPT !.state = "rejected"],
                           !.order = Append(@, i),
                           !.pc = "rejected",
                           !.error = RejectionError(pall.pc = "rejected", i, @)]
  /\ UNCHANGED <<videoVars, reenc, img, route>>

\* every callback has returned: the await at line 69 yields the array
AllFulfilled ==
  /\ pall.pc = "running"
  /\ \A j \in 1..Len(pall.slots) : pall.slots[j].state = "fulfilled"
  /\ pall' = [pall EXCEPT !.pc = "resolved", !.result = Assemble(pall.slots, pall.order)]
  /\ UNCHANGED <<videoVars, reenc, img, route>>

NextPromiseAll == MapStart \/ CallbackSettles \/ AllFulfilled

SpecPromiseAll == Init /\ [][NextPromiseAll]_vars

\* ------------------------------------------- analyzeImageFrame (32-56)
\* the call up to its await: the buffer check, the payload and axios.post
ImageEntry ==
  /\ img.pc = "idle"
  /\ \E given \in BOOLEAN, n \in ImageSizes, sd \in SensorValues :
       /\ ~given => n = 0
       /\ img' =
            IF ~given
            THEN [NoImageCall EXCEPT !.pc = "failed", !.sensorData = sd,
                                     !.error = ImageBufferRequiredError]
            ELSE [NoImageCall EXCEPT !.pc = "awaiting", !.given = TRUE,
                                     !.buffer = Frame(1, n), !.sensorData = sd,
                                     !.payload = ImagePayload(Frame(1, n), sd),
                                     !.posted = TRUE]
  /\ UNCHANGED <<videoVars, reenc, pall, route>>

\* return response.data.result
ImageRespondOk ==
  /\ img.pc = "awaiting"
  /\ img' = [img EXCEPT !.pc = "returned"]
  /\ UNCHANGED <<videoVars, reenc, pall, route>>

\* throw this.mapError(error, 'Image analysis failed')
ImageRespondError ==
  /\ img.pc = "awaiting"
  /\ img' = [img EXCEPT !.pc = "failed", !.error = UpstreamError]
  /\ UNCHANGED <<videoVars, reenc, pall, route>>

NextImage == ImageEntry \/ ImageRespondOk \/ ImageRespondError

SpecImage == Init /\ [][NextImage]_vars

\* ------------------------------------------- the S3-backed analysis routes
\* a request arrives: validation and authentication, then the source of the
\* media is chosen (routes/aiAnalysis.ts 315-349 and 529-533, 565-600)
RouteRequest ==
  /\ route.pc = "idle"
  /\ \E path \in S3Routes, accepted \in {200, 400, 401}, save \in BOOLEAN :
     \E source \in Sources(path), n \in 0..MaxKeys :
       /\ (path = "analyze-video-file" => accepted # 400 /\ n <= 1)
       /\ (source = "none" <=> n = 0 /\ source # "base64")
       /\ route' =
            IF accepted # 200
            THEN [NoRequest EXCEPT !.pc = "responded", !.path = path, !.status = accepted]
            ELSE IF path = "analyze-video"
            THEN (IF source = "none"
                  THEN [NoRequest EXCEPT !.pc = "responded", !.path = path, !.status = 400]
                  ELSE [NoRequest EXCEPT !.pc = (IF source = "s3" THEN "download"
                                                 ELSE "loaded"),
                                         !.path = path, !.source = source, !.count = n,
                                         !.save = save])
            ELSE [NoRequest EXCEPT !.pc = "profile", !.path = path, !.source = source,
                                   !.count = n, !.save = save]
  /\ UNCHANGED <<videoVars, reenc, pall, img>>

\* await S3Service.downloadFrames / downloadVideo, or reading the uploaded
\* file: a failure goes to the route's catch block (500)
RouteDownload ==
  /\ route.pc = "download"
  /\ \E ok \in BOOLEAN :
       route' = IF ok
                THEN [route EXCEPT !.pc = IF route.path = "analyze-video" THEN "loaded"
                                          ELSE "analyze"]
                ELSE [route EXCEPT !.pc = "responded", !.status = 500]
  /\ UNCHANGED <<videoVars, reenc, pall, img>>

\* POST /analyze-video: if (frames.length === 0) return 400 (lines 351-353)
RouteCheckFrames ==
  /\ route.pc = "loaded"
  /\ route' = IF route.count = 0
              THEN [route EXCEPT !.pc = "responded", !.status = 400]
              ELSE [route EXCEPT !.pc = "profile"]
  /\ UNCHANGED <<videoVars, reenc, pall, img>>

\* the user profile is looked up; a failure is caught and ignored. On the
\* video-file route the lookup comes before the download (536-562), and a
\* request without s3Key and without file is answered 400 (598-600)
RouteProfile ==
  /\ route.pc = "profile"
  /\ route' = IF route.path = "analyze-video"
              THEN [route EXCEPT !.pc = "analyze"]
              ELSE IF route.source = "none"
              THEN [route EXCEPT !.pc = "responded", !.status = 400]
              ELSE [route EXCEPT !.pc = "download"]
  /\ UNCHANGED <<videoVars, reenc, pall, img>>

\* the awaited analysis call settles; the cleanup the route starts then
\* (fire and forget) and, on an exception, the catch block's 500
RouteAnalyze ==
  /\ route.pc = "analyze"
  /\ \E outcome \in {"ok", "error"} :
       route' = [route EXCEPT
                   !.analysis = outcome,
                   !.deletes = @ + DeletesStarted(route.path, route.source, outcome),
                   !.deletedKeys = IF DeletesStarted(route.path, route.source, outcome) > 0
                                   THEN route.count ELSE @,
                   !.pc = IF outcome = "ok" THEN (IF route.save THEN "save" ELSE "responded")
                          ELSE "responded",
                   !.status = IF outcome = "ok" THEN (IF route.save THEN 0 ELSE 200) ELSE 500]
  /\ UNCHANGED <<videoVars, reenc, pall, img>>

\* await MetricService.createBatchMetrics: a failure goes to the catch block
RouteSave ==
  /\ route.pc = "save"
  /\ \E ok \in BOOLEAN :
       route' = [route EXCEPT !.pc = "responded", !.status = IF ok THEN 200 ELSE 500]
  /\ UNCHANGED <<videoVars, reenc, pall, img>>

NextRoute ==
  \/ RouteRequest
  \/ RouteDownload
  \/ RouteCheckFrames
  \/ RouteProfile
  \/ RouteAnalyze
  \/ RouteSave

SpecRoute == Init /\ [][NextRoute]_vars

Next == Entry \/ CompressAttempt \/ Escalate \/ Post \/ RespondOk \/ RespondError

Spec == Init /\ [][Next]_vars

\* axios.post has a timeout, and every awaited re-encode is assumed to settle
FairSpec == Spec /\ WF_vars(Next)

\* ------------------------------------------------------------- properties
\* the run has reached the outbound call
ReachedCall == pc \in {"post", "awaiting", "returned"} \/ posted > 0

InputIsEmpty == ~inputGiven \/ Len(input) = 0

\* the caller's frames after the frame-count cap
Capped == SubSeq(input, 1, IF Len(input) > MAX_FRAMES THEN MAX_FRAMES ELSE Len(input))

\* s is the caller's batch cut after some position, each frame in its own place
IsPrefixOfInput(s) ==
  /\ Len(s) <= Len(input)
  /\ \A i \in 1..Len(s) :
       /\ s[i].idx = input[i].idx
       /\ s[i].idx = i
       /\ s[i].enc >= 0
       /\ (s[i].enc = 0 => s[i].len = input[i].len)

\* the same for a list of base64 strings
IsEncodedPrefixOfInput(s) ==
  /\ Len(s) <= Len(input)
  /\ \A i \in 1..Len(s) :
       /\ s[i].idx = input[i].idx
       /\ s[i].idx = i
       /\ s[i].enc >= 0
       /\ (s[i].enc = 0 => s[i].len = 4 * ((input[i].len + 2) \div 3))

\* C1: in every run that reaches the outbound call the measured payload size is
\* at most MAX_PAYLOAD_MB, and that size is the one of the frames handed to the
\* call together with sensorData; a batch that starts above MAX_PAYLOAD_MB is
\* either brought under the limit or the run fails, it is never sent oversized.
C1_NeverSendsOversized ==
  ReachedCall =>
    /\ payloadSize <= MAX_PAYLOAD_MB * BytesPerMB
    /\ MeasuredLen(base64Frames, sensorData) = payloadSize
    /\ (posted > 0 => MeasuredLen(payload.frames, sensorData) <= MAX_PAYLOAD_MB * BytesPerMB)

C1_Witness ==
  /\ posted = 1
  /\ initialPayloadSize > MAX_PAYLOAD_MB * BytesPerMB
  /\ payloadSize <= MAX_PAYLOAD_MB * BytesPerMB
  /\ payloadSize > TARGET_PAYLOAD_MB * BytesPerMB

\* C2: when the size first measured on the capped batch is not above
\* COMPRESSION_THRESHOLD_MB, no frame is ever re-encoded, no compression attempt
\* is made and the frames forwarded are the capped input frames, unchanged.
C2_NoCompressionBelowThreshold ==
  (pc # "entry" /\ ~InputIsEmpty
     /\ MeasuredLen(ToBase64(Capped), sensorData) <= COMPRESSION_THRESHOLD_MB * BytesPerMB) =>
    /\ encodedIdx = {}
    /\ compressionAttempts = 0
    /\ frames = Capped
    /\ base64Frames = ToBase64(Capped)
    /\ ReachedCall \/ (pc = "failed" /\ err.kind = "Upstream")
    /\ (posted > 0 => payload.frames = ToBase64(Capped))

C2_Witness ==
  /\ posted = 1
  /\ Len(input) > MAX_FRAMES
  /\ initialPayloadSize = 0
  /\ payloadSize > 0
  /\ payloadSize <= COMPRESSION_THRESHOLD_MB * BytesPerMB
  /\ payload.frames = ToBase64(Capped)

\* C3: order preservation: the batch the controller holds, and in a successful
\* run the batch it sends, is the input cut after some position: element i is
\* input frame i, re-encoded zero or more times; nothing is reordered,
\* duplicated or taken out of the middle.
C3_OrderPreserved ==
  /\ (pc # "entry" /\ ~InputIsEmpty) => IsPrefixOfInput(frames)
  /\ IsPrefixOfInput(compressedFrames)
  /\ IsEncodedPrefixOfInput(base64Frames)
  /\ ReachedCall => (Len(frames) >= 1 /\ Len(base64Frames) >= 1)
  /\ posted > 0 => IsEncodedPrefixOfInput(payload.frames)

C3_Witness ==
  /\ pc = "returned"
  /\ compressionAttempts >= 2
  /\ Len(payload.frames) < Len(input)
  /\ Len(payload.frames) = 6
  /\ \A i \in 1..Len(payload.frames) : payload.frames[i].enc >= 2

\* C4: after the frame-count limiter every batch the run holds has at most
\* MAX_FRAMES frames, and a compression attempt or the escalation step never
\* makes the batch longer.
C4_FrameCountBoundedAndNonIncreasing ==
  [][ /\ (pc' # "entry" =>
            /\ Len(frames') <= MAX_FRAMES
            /\ Len(compressedFrames') <= MAX_FRAMES
            /\ Len(base64Frames') <= MAX_FRAMES
            /\ Len(payload'.frames) <= MAX_FRAMES)
      /\ (pc = "loop" =>
            /\ Len(compressedFrames') <= Len(compressedFrames)
            /\ Len(frames') <= Len(frames)
            /\ Len(base64Frames') <= Len(base64Frames)) ]_vars

C4_Witness ==
  /\ Len(input) > MAX_FRAMES
  /\ pc = "post"
  /\ compressionAttempts >= 2
  /\ Len(frames) = 6

\* C5: for an input of more than MAX_FRAMES frames the limiter keeps the first
\* MAX_FRAMES frames in input order and raises nothing; the frames beyond the
\* cap are in no measured batch, are passed to no re-encode and are not in the
\* payload.
C5_LimiterKeepsFirstFrames ==
  (Len(input) > MAX_FRAMES /\ pc # "entry") =>
    /\ \A i \in 1..Len(frames) : frames[i].idx = i /\ i <= MAX_FRAMES
    /\ \A i \in 1..Len(base64Frames) : base64Frames[i].idx = i /\ i <= MAX_FRAMES
    /\ \A i \in 1..Len(payload.frames) : payload.frames[i].idx = i /\ i <= MAX_FRAMES
    /\ encodedIdx \subseteq 1..MAX_FRAMES
    /\ measureCalls >= 1
    /\ (compressionAttempts = 0 =>
          /\ frames = SubSeq(input, 1, MAX_FRAMES)
          /\ base64Frames = ToBase64(SubSeq(input, 1, MAX_FRAMES))
          /\ payloadSize = MeasuredLen(ToBase64(SubSeq(input, 1, MAX_FRAMES)), sensorData))
    /\ err.kind # "NoFrames"
    /\ (pc = "failed" /\ err.kind # "Upstream" => compressionAttempts >= 1)

C5_Witness ==
  /\ Len(input) > MAX_FRAMES
  /\ input[MAX_FRAMES + 1].len # input[MAX_FRAMES].len
  /\ posted = 1
  /\ encodedIdx = 1..MAX_FRAMES

\* C6: when a compression attempt exhausts the fallback ladder of a frame, the
\* run ends in that step with the per-frame error naming the position of a frame
\* whose ladder was exhausted; the batch is left as it was (no frame is skipped
\* or dropped), nothing is measured or sent, and the failed run takes no
\* further step.
C6_EncodeFailureAborts ==
  [][ /\ (failedFrames' # {} =>
            /\ pc = "loop"
            /\ pc' = "failed"
            /\ err'.kind = "FrameEncode"
            /\ err'.frame \in failedFrames'
            /\ err'.frame \in 1..Len(compressedFrames)
            /\ compressedFrames' = compressedFrames
            /\ frames' = frames
            /\ base64Frames' = base64Frames
            /\ measureCalls' = measureCalls
            /\ posted' = 0)
      /\ pc # "failed" ]_vars

C6_Witness ==
  /\ pc = "failed"
  /\ err.kind = "FrameEncode"
  /\ compressionAttempts >= 2
  /\ Len(compressedFrames) >= 2
  /\ failedFrames = {Len(compressedFrames)}
  /\ err.frame = Len(compressedFrames)

\* C7: a run that ends in Fail raises an error carrying the final measured size
\* (in MB to two decimals) and the configured maximum, the size being above the
\* maximum; no outbound call is made in a run that ends with that error, with
\* the empty-input error or with a per-frame encode error.
C7_FailCarriesSizeAndNoCall ==
  /\ (pc = "failed" /\ err.kind = "PayloadTooLarge") =>
       /\ payloadSize > MAX_PAYLOAD_MB * BytesPerMB
       /\ err.max = MAX_PAYLOAD_MB
       /\ err.sizeText * 262144 - payloadSize * 25 <= 131072
       /\ payloadSize * 25 - err.sizeText * 262144 <= 131072
  /\ err.kind \in {"PayloadTooLarge", "NoFrames", "FrameEncode"} =>
       /\ pc = "failed"
       /\ posted = 0
       /\ payload = NoPayload

C7_Witness ==
  /\ pc = "failed"
  /\ err.kind = "PayloadTooLarge"
  /\ compressionAttempts = maxCompressionAttempts
  /\ posted = 0

\* C8: an empty or missing frame batch is rejected at once with the
\* no-frames error: nothing is measured, nothing is re-encoded, no compression
\* attempt and no outbound call is made.
C8_EmptyInputRejected ==
  (InputIsEmpty /\ pc # "entry") =>
    /\ pc = "failed"
    /\ err.kind = "NoFrames"
    /\ measureCalls = 0
    /\ payloadSize = 0
    /\ base64Frames = <<>>
    /\ encodedIdx = {}
    /\ compressionAttempts = 0
    /\ posted = 0

C8_Witness ==
  /\ inputGiven
  /\ Len(input) = 0
  /\ pc = "failed"
  /\ err.kind = "NoFrames"

\* C9: every run terminates: it makes at most maxCompressionAttempts = 4
\* compression attempts and then reaches the outbound call (Done) or an error
\* (Fail), given that every re-encode settles.
C9_Terminates ==
  /\ [](compressionAttempts <= 4)
  /\ <>(posted > 0 \/ pc = "failed")

C9_Witness ==
  /\ compressionAttempts = 4
  /\ posted = 1

\* C10: the size the controller measures equals the serialized size of the
\* payload the outbound call sends, sensorData and userProfile included
\* whenever they are in the payload.
C10_MeasuredIsSentSize ==
  posted > 0 => SerializedLen(payload) = payloadSize

\* C12: when the size measured after the last compression attempt is above
\* TARGET_PAYLOAD_MB and not above MAX_PAYLOAD_MB, the run is accepted: the next
\* step raises no error, writes a warning and leads to the outbound call, which
\* is then made.
C12_AcceptedWithWarning ==
  [][ /\ (/\ pc = "loop"
          /\ compressionAttempts = 4
          /\ payloadSize > TARGET_PAYLOAD_MB * BytesPerMB
          /\ payloadSize <= MAX_PAYLOAD_MB * BytesPerMB) =>
            /\ pc' = "post"
            /\ err' = NoError
            /\ "errorTooLarge" \notin finalLog'
            /\ finalLog' \cap {"warnAboveTarget", "warnSafetyReduction"} # {}
            /\ compressionAttempts' = compressionAttempts
      /\ pc = "post" => (pc' = "awaiting" /\ posted' = 1 /\ err' = NoError) ]_vars

C12_Witness ==
  /\ posted = 1
  /\ compressionAttempts = 4
  /\ payloadSize > TARGET_PAYLOAD_MB * BytesPerMB
  /\ payloadSize <= MAX_PAYLOAD_MB * BytesPerMB
  /\ "warnAboveTarget" \in finalLog
  /\ err = NoError

\* the rung of a profile on the ladder (1 = mildest)
RungOf(p) == CHOOSE k \in 1..Len(ProfileLadder) : ProfileLadder[k] = p

\* C16: every compression attempt after the first uses the profile exactly one
\* rung more aggressive than the attempt before it: smaller target dimensions
\* and lower quality.
C16_EscalatesOneRung ==
  [][ (compressionAttempts >= 1 /\ compressionAttempts' = compressionAttempts + 1) =>
        /\ RungOf(profile') = RungOf(profile) + 1
        /\ profile'.targetWidth < profile.targetWidth
        /\ profile'.targetHeight < profile.targetHeight
        /\ profile'.quality < profile.quality ]_vars

\* C17: the profile of attempt 1 is decided by the initial measured size alone
\* (rung 3 above 18 MB, rung 2 otherwise), and the starting rung is monotone in
\* that size: no larger size starts on a milder rung, no smaller size on a more
\* aggressive one.
SizeBandSamples ==
  {k * BytesPerMB + d : k \in {10, 15, 18, 20, 25, 30, 48}, d \in {0, 1}}

C17_StartProfileMonotone ==
  (initialPayloadSize > 0) =>
    /\ startLevel = (IF initialPayloadSize > 18 * BytesPerMB THEN 3 ELSE 2)
    /\ (compressionAttempts = 1 => profile = ProfileLadder[startLevel])
    /\ \A y \in SizeBandSamples :
         /\ (y >= initialPayloadSize => StartLevel(y) >= startLevel)
         /\ (y <= initialPayloadSize => StartLevel(y) <= startLevel)

C17_Witness ==
  /\ compressionAttempts = 1
  /\ initialPayloadSize > 25 * BytesPerMB
  /\ profile = ProfileLadder[3]

\* C20: once the size measured after a compression attempt is at most
\* TARGET_PAYLOAD_MB the controller is done: the next step makes no further
\* attempt, re-encodes and measures nothing, leaves the batch as it is and leads
\* to the outbound call, which sends exactly that batch.
C20_DoneAtTarget ==
  [][ /\ (/\ pc = "loop"
          /\ compressionAttempts >= 1
          /\ payloadSize <= TARGET_PAYLOAD_MB * BytesPerMB) =>
            /\ pc' = "post"
            /\ compressionAttempts' = compressionAttempts
            /\ encodedIdx' = encodedIdx
            /\ measureCalls' = measureCalls
            /\ compressedFrames' = compressedFrames
            /\ frames' = compressedFrames
            /\ base64Frames' = base64Frames
            /\ payloadSize' = payloadSize
            /\ err' = NoError
      /\ (pc = "post" /\ compressionAttempts >= 1) =>
            /\ pc' = "awaiting"
            /\ posted' = 1
            /\ payload'.frames = base64Frames
            /\ Len(payload'.frames) = Len(frames) ]_vars

C20_Witness ==
  /\ posted = 1
  /\ compressionAttempts = 1
  /\ Len(input) >= MAX_FRAMES
  /\ Len(payload.frames) = MAX_FRAMES
  /\ payloadSize <= TARGET_PAYLOAD_MB * BytesPerMB

\* ---------------------------------------------------- the fallback ladder
\* the callback returned a buffer for the frame
Reencoded == reenc.pc = "done"

\* C11 (as stated): on whichever rung produces the result, the output is no
\* wider and no taller than the original frame.
C11_NeverEnlarges ==
  Reencoded => /\ reenc.out.width <= reenc.width
               /\ reenc.out.height <= reenc.height

\* C11 (amended): a result of the direct, lossless-intermediate, re-encode-only
\* or forced-small rung is no wider and no taller than the original, also when
\* the profile's target exceeds the original; a result of the final minimal
\* rung fits 320x240 and may be larger than the original.
C11_NeverEnlargesBeforeMinimal ==
  Reencoded =>
    /\ reenc.out.rung # "minimal" => /\ reenc.out.width <= reenc.width
                                     /\ reenc.out.height <= reenc.height
    /\ reenc.out.rung = "minimal" => /\ reenc.out.width <= 320
                                     /\ reenc.out.height <= 240

C11_Witness ==
  /\ Reencoded
  /\ reenc.out.rung = "direct"
  /\ reenc.profile.targetWidth > reenc.width
  /\ reenc.profile.targetHeight > reenc.height
  /\ reenc.out.width = reenc.width
  /\ reenc.out.height = reenc.height

FallbackOrder == <<"direct", "pngIntermediate", "forcedSmall", "minimal">>

\* C18: once the direct re-encode of a frame has been attempted, the attempts
\* made so far are an initial part of direct, lossless-intermediate, forced
\* small, minimal, in that order; every attempt before the last has failed;
\* a returned result is the output of the last attempt made; the forced-small
\* result fits 480x360 and the minimal one 320x240.
C18_LadderInOrder ==
  (reenc.tried # <<>> /\ reenc.tried[1] = "direct") =>
    /\ Len(reenc.tried) <= Len(FallbackOrder)
    /\ \A i \in 1..Len(reenc.tried) : reenc.tried[i] = FallbackOrder[i]
    /\ Reencoded =>
         /\ reenc.out.rung = reenc.tried[Len(reenc.tried)]
         /\ reenc.failed = {reenc.tried[i] : i \in 1..(Len(reenc.tried) - 1)}
    /\ ~Reencoded => reenc.failed = {reenc.tried[i] : i \in 1..Len(reenc.tried)}
    /\ reenc.out.rung = "forcedSmall" => /\ reenc.out.width <= 480
                                         /\ reenc.out.height <= 360
    /\ reenc.out.rung = "minimal" => /\ reenc.out.width <= 320
                                     /\ reenc.out.height <= 240

C18_Witness ==
  /\ Reencoded
  /\ reenc.tried = FallbackOrder
  /\ reenc.out.rung = "minimal"
  /\ reenc.failed = {"direct", "pngIntermediate", "forcedSmall"}

\* C19: the callback throws for a frame only after the minimal 320x240 attempt
\* has been made and has failed.
C19_ErrorOnlyAfterMinimal ==
  reenc.pc = "error" => "minimal" \in reenc.failed

\* ------------------------------------------------------------ Promise.all
\* C13: the callbacks of one attempt are pending together and finish in any
\* order; whatever the order, the array the attempt gets has the length of its
\* input and its element i is the re-encoding of input element i.
C13_ReassembledInOrder ==
  pall.pc = "resolved" =>
    /\ Len(pall.result) = Len(pall.frames)
    /\ \A i \in 1..Len(pall.frames) :
         /\ pall.result[i].idx = pall.frames[i].idx
         /\ pall.result[i] = Reencode(pall.frames[i], pall.ratio)

\* the last frame finished first and the first frame last
C13_Witness ==
  /\ pall.pc = "resolved"
  /\ Len(pall.frames) >= 2
  /\ pall.order[1] = Len(pall.frames)
  /\ pall.order[Len(pall.order)] = 1
  /\ pall.result[1].idx = 1

AttemptMeasured == attemptLog.measuredLen > 0

\* C21: an attempt cuts the batch to its first 6 frames for low effectiveness
\* exactly when it saved less than 10% of the bytes, is attempt 2 or later and
\* the batch has more than 6 frames; attempt 1 never drops a frame.
C21_LowRatioCut ==
  AttemptMeasured =>
    /\ attemptLog.lowDrop <=>
         /\ (attemptLog.totalOriginalSize - attemptLog.totalCompressedSize) * 10
              < attemptLog.totalOriginalSize
         /\ attemptLog.attempt >= 2
         /\ attemptLog.lenBefore > 6
    /\ attemptLog.lowDrop => attemptLog.measuredLen = 6
    /\ ~attemptLog.lowDrop => attemptLog.measuredLen = attemptLog.lenBefore
    /\ attemptLog.attempt = 1 => attemptLog.measuredLen = attemptLog.lenBefore
    /\ (pc = "loop" /\ attemptLog.lowDrop) =>
         /\ Len(base64Frames) = 6
         /\ \A i \in 1..6 : base64Frames[i].idx = input[i].idx

C21_Witness ==
  /\ AttemptMeasured
  /\ pc = "loop"
  /\ attemptLog.lowDrop
  /\ attemptLog.attempt = 2
  /\ attemptLog.lenBefore = 12
  /\ Len(base64Frames) = 6

\* C22: whenever the last attempt dropped frames for low effectiveness, its
\* full re-encoded batch measured above TARGET_PAYLOAD_MB and the loop goes on
\* to another compression attempt on the reduced batch.
C22_DropAheadOfAttempt ==
  (pc = "loop" /\ AttemptMeasured /\ attemptLog.lowDrop) =>
    /\ attemptLog.fullSize > 10 * BytesPerMB
    /\ payloadSize > 10 * BytesPerMB
    /\ compressionAttempts < 4

\* C23: every step of the loop or of the block after it that shortens the
\* batch keeps its leading frames in place and leaves at least 6 of them, and
\* the call is made with at least min(n, 6) and at most n frames, the leading
\* ones, where n is the number of frames after the entry cap.
C23_FrameCountFloor ==
  [][ /\ (pc = "loop" /\ Len(compressedFrames') < Len(compressedFrames)) =>
            /\ Len(compressedFrames') >= 6
            /\ \A i \in 1..Len(compressedFrames') :
                 compressedFrames'[i].idx = compressedFrames[i].idx
      /\ (pc' = "awaiting") =>
            /\ Len(payload'.frames) <= Len(Capped)
            /\ Len(payload'.frames) >= (IF Len(Capped) < 6 THEN Len(Capped) ELSE 6)
            /\ \A i \in 1..Len(payload'.frames) : payload'.frames[i].idx = input[i].idx ]_vars

C23_Witness ==
  /\ pc = "awaiting"
  /\ Len(input) = 9
  /\ Len(payload.frames) = 6
  /\ attemptLog.lowDrop

\* ------------------------------------------------- the block after the loop
\* the block after the loop has run
PostLoopDone == postLog.sizeAfterLoop > 0

\* C24: when the size after the last attempt is above MAX_PAYLOAD_MB the target
\* frame count is 8 for a size of at most 25 MB and 6 above it; a batch longer
\* than the target is cut to its first target frames and measured again, a
\* batch that is not longer is left as it is; the final check against
\* MAX_PAYLOAD_MB is made on the size of the batch as it then stands.
C24_EscalateBySize ==
  (PostLoopDone /\ postLog.sizeAfterLoop > 20 * BytesPerMB) =>
    /\ postLog.targetFrameCount = (IF postLog.sizeAfterLoop > 25 * BytesPerMB THEN 6 ELSE 8)
    /\ postLog.lenAfterLoop > postLog.targetFrameCount =>
         /\ postLog.cut = postLog.targetFrameCount
         /\ Len(compressedFrames) = postLog.targetFrameCount
         /\ Len(base64Frames) = postLog.targetFrameCount
         /\ \A i \in 1..Len(base64Frames) : base64Frames[i].idx = input[i].idx
         /\ payloadSize < postLog.sizeAfterLoop
    /\ postLog.lenAfterLoop <= postLog.targetFrameCount =>
         /\ postLog.cut = 0
         /\ Len(compressedFrames) = postLog.lenAfterLoop
         /\ payloadSize = postLog.sizeAfterLoop
    /\ (pc = "failed" /\ err.kind = "PayloadTooLarge") <=> payloadSize > 20 * BytesPerMB
    /\ payloadSize > 20 * BytesPerMB => posted = 0

\* the escalation chose 8 frames for a size between 20 and 25 MB
C24_Witness ==
  /\ PostLoopDone
  /\ postLog.sizeAfterLoop > 20 * BytesPerMB
  /\ postLog.sizeAfterLoop <= 25 * BytesPerMB
  /\ postLog.targetFrameCount = 8
  /\ err.kind = "PayloadTooLarge"

\* the escalation chose 6 frames for a size above 25 MB
C24_WitnessAbove25 ==
  /\ PostLoopDone
  /\ postLog.sizeAfterLoop > 25 * BytesPerMB
  /\ postLog.targetFrameCount = 6

IsEncodingOf(s, fs) ==
  /\ Len(s) = Len(fs)
  /\ \A i \in 1..Len(fs) :
       /\ s[i].idx = fs[i].idx
       /\ s[i].enc = fs[i].enc
       /\ s[i].len = 4 * ((fs[i].len + 2) \div 3)

\* C26: the base64 list in the body of the call is the encoding of the final
\* batch, frame by frame; when the loop exits, the list that was measured has
\* the length of the current batch, so a cut made inside the loop without a
\* measurement is always followed by another attempt; from the exit on, the
\* measured size is the size of the encoding of the current batch; and an
\* attempt that cut nothing measured the bytes its ratio was computed from.
C26_MeasuredBatchIsCurrent ==
  /\ ReachedCall =>
       /\ IsEncodingOf(base64Frames, frames)
       /\ payloadSize = MeasuredLen(base64Frames, sensorData)
       /\ pc # "post" => IsEncodingOf(payload.frames, frames)
  /\ PostLoopDone =>
       /\ postLog.measuredLenAfterLoop = postLog.lenAfterLoop
       /\ IsEncodingOf(base64Frames, compressedFrames)
       /\ payloadSize = MeasuredLen(base64Frames, sensorData)
  /\ (pc = "loop" /\ AttemptMeasured /\ ~attemptLog.lowDrop /\ ~attemptLog.largeDrop) =>
       /\ IsEncodingOf(base64Frames, compressedFrames)
       /\ SumLen(compressedFrames) = attemptLog.totalCompressedSize

\* a run that cut its batch inside the loop without measuring it went on to
\* another attempt and made the call with the 6 frames it measured last
C26_Witness ==
  /\ pc = "awaiting"
  /\ attemptLog.largeDropSeen
  /\ postLog.lenAfterLoop = 6
  /\ Len(payload.frames) = 6
  /\ Len(input) >= 12

C25_LogMatchesOutput ==
  (Reencoded /\ reenc.out.rung = "direct") =>
    /\ reenc.log = "resizing" <=>
         (reenc.out.width # reenc.width \/ reenc.out.height # reenc.height)
    /\ reenc.log = "keepingDimensions" <=>
         (reenc.out.width = reenc.width /\ reenc.out.height = reenc.height)

\* ------------------------------------------ the error of a failed attempt
\* the orders in which the callbacks of n frames can settle
CompletionOrders(n) ==
  {o \in [1..n -> 1..n] : \A i, j \in 1..n : i # j => o[i] # o[j]}

\* the frame whose rejection arrives first when the callbacks settle in order o
FirstRejection(bad, o) ==
  o[CHOOSE k \in 1..Len(o) : o[k] \in bad /\ \A j \in 1..(k - 1) : o[j] \notin bad]

\* C27 (as stated): the frame named by the error of a failed attempt is the
\* one that would be named under every other completion order of the same
\* batch.
C27_ErrorIndependentOfOrder ==
  pall.pc = "rejected" =>
    \A o \in CompletionOrders(Len(pall.frames)) :
      pall.error.frame = FirstRejection(pall.bad, o)

\* C27 (amended): the error of a failed attempt names a frame that cannot be
\* re-encoded, the one whose re-encode was the first to fail in time; when
\* exactly one frame cannot be re-encoded it names that frame under every
\* completion order.
C27_ErrorNamesFirstToFail ==
  pall.pc = "rejected" =>
    /\ pall.error.kind = "FrameEncode"
    /\ pall.error.frame \in pall.bad
    /\ pall.error.frame = FirstRejection(pall.bad, pall.order)
    /\ pall.result = <<>>
    /\ Cardinality(pall.bad) = 1 =>
         \A o \in CompletionOrders(Len(pall.frames)) :
           pall.error.frame = FirstRejection(pall.bad, o)

\* two frames failed, the later one first, and the error names it
C27_Witness ==
  /\ pall.pc = "rejected"
  /\ pall.bad = {1, 2}
  /\ pall.slots[1].state = "rejected"
  /\ pall.slots[2].state = "rejected"
  /\ pall.error.frame = 2

\* ------------------------------------------------------- S3 object cleanup
\* C28: on both routes, a request that came with S3 keys starts the deletion
\* of its objects exactly once when its analysis call has finished, with a
\* result or with an error, and never before.
C28_CleanupAfterAnalysis ==
  /\ route.analysis = "none" => route.deletes = 0
  /\ (route.analysis # "none" /\ route.source = "s3") =>
       /\ route.deletes = 1
       /\ route.deletedKeys = route.count
  /\ route.source # "s3" => route.deletes = 0

====
